---- MODULE Spec2Model ----
(***************************************************************************)
(* A model of the manuscript formatter: the extraction of a content model  *)
(* from the paragraphs, images and tables of a source document             *)
(* (document_processor.py), the citation locator (detect_citations) and    *)
(* the placement of figures and tables after the citing paragraphs         *)
(* (formatter.py), driven in the order app.py calls them.                  *)
(*                                                                         *)
(* Text is a sequence of tokens separated by single spaces.  A word token  *)
(* carries its characters in chunks (<<"Reference", "s", ":">> is the word *)
(* "References:"), a cite token is a mention such as "Figure 1A:" or       *)
(* "(Tab. 2)", a space token is leading or trailing whitespace.  Regular   *)
(* expressions of the source are operators over these tokens.              *)
(***************************************************************************)
EXTENDS Integers, Sequences, FiniteSets, TLC

VARIABLES
    paragraphs,     \* self.doc.paragraphs: the raw paragraphs, document order
    images,         \* the image relationships of self.doc.part.rels, in order
    docTables,      \* self.doc.tables: the tables' grids, document order
    figure_width,   \* JournalFormatter.figure_width, in half inches
    content,        \* DocumentProcessor.content
    citations,      \* the list the last detect_citations call returned
    firstCitations, \* the list the first detect_citations call returned
    extracted,      \* the value of content when extract_all_content returned
    blocks,         \* the body of the Document format_document builds
    document,       \* the Document format_document returned, all sections
    raised,         \* format_document raised an exception
    pc,             \* the next step of the pipeline
    detects,        \* number of detect_citations calls so far
    formats         \* number of format_document calls so far

vars == <<paragraphs, images, docTables, figure_width, content, citations,
          firstCitations, extracted, blocks, document, raised, pc, detects,
          formats>>

----------------------------------------------------------------------------
(* Sequences *)

RECURSIVE Flatten(_)
Flatten(ss) == IF ss = <<>> THEN <<>> ELSE Head(ss) \o Flatten(Tail(ss))

RECURSIVE SumSeq(_)
SumSeq(s) == IF s = <<>> THEN 0 ELSE Head(s) + SumSeq(Tail(s))

SeqsUpTo(S, n) == UNION {[1..k -> S] : k \in 0..n}

Max(S) == CHOOSE x \in S : \A y \in S : y <= x

Min2(a, b) == IF a <= b THEN a ELSE b

----------------------------------------------------------------------------
(* Tokens *)

Word(chunks) ==
    [t |-> "word", w |-> chunks, kind |-> "", form |-> "", digits |-> <<>>,
     letter |-> "", sep |-> ""]

\* A mention of a figure or table.  form "bare" is  Figure 1 ,  "paren" is
\* (Figure 1) , "abbr" is  (Fig. 1)  or  (Tab. 1) ; letter is the letter that
\* follows the digits at once ("" when none does), sep the punctuation after
\* a bare mention ("" when whitespace or the end of the text follows).
Cite(kind, form, digits, letter, sep) ==
    [t |-> "cite", w |-> <<>>, kind |-> kind, form |-> form, digits |-> digits,
     letter |-> letter, sep |-> sep]

Space == [t |-> "space", w |-> <<>>, kind |-> "", form |-> "", digits |-> <<>>,
          letter |-> "", sep |-> ""]

UpperLetters == {"A", "B"}
LowerLetters == {"a", "b"}

\* re.IGNORECASE and str.lower(), on the chunks the model uses.
LowerChunk(c) ==
    CASE c \in {"Abstract", "ABSTRACT"} -> "abstract"
      [] c = "Introduction" -> "introduction"
      [] c = "Background" -> "background"
      [] c = "Method" -> "method"
      [] c = "Keyword" -> "keyword"
      [] c = "Reference" -> "reference"
      [] c \in {"Title", "TITLE"} -> "title"
      [] c = "Author" -> "author"
      [] c = "Affiliation" -> "affiliation"
      [] c = "Figure" -> "figure"
      [] c = "Table" -> "table"
      [] c = "Result" -> "result"
      [] OTHER -> c

LowerWord(w) == [i \in 1..Len(w) |-> LowerChunk(w[i])]

IsPrefix(p, s) == Len(p) <= Len(s) /\ SubSeq(s, 1, Len(p)) = p

\* The number of characters of a chunk; "Lorem99" and "Lorem100" stand for
\* running text of 99 and 100 characters.
ChunkLen(c) ==
    CASE c \in {"Abstract", "ABSTRACT"} -> 8
      [] c = "Introduction" -> 12
      [] c = "Background" -> 10
      [] c = "Method" -> 6
      [] c = "Keyword" -> 7
      [] c = "Reference" -> 9
      [] c \in {"Title", "TITLE"} -> 5
      [] c = "Author" -> 6
      [] c = "Affiliation" -> 11
      [] c = "Figure" -> 6
      [] c = "Result" -> 6
      [] c = "Lorem99" -> 99
      [] c = "Lorem100" -> 100
      [] c \in {"s", ":", "@", ",", "0", "1", "2", "3", "4", "5", "6", "7",
                "8", "9"} -> 1
      [] OTHER -> 5

\* The characters of the text a token stands for.
TokenLen(tok) ==
    CASE tok.t = "space" -> 1
      [] tok.t = "word" -> SumSeq([i \in 1..Len(tok.w) |-> ChunkLen(tok.w[i])])
      [] OTHER ->
           (CASE tok.form = "abbr" -> 7
              [] tok.form = "paren" -> IF tok.kind = "figure" THEN 10 ELSE 9
              [] OTHER -> IF tok.kind = "figure" THEN 7 ELSE 6)
           + Len(tok.digits)
           + (IF tok.letter = "" THEN 0 ELSE 1)
           + (IF tok.sep = "" THEN 0 ELSE 1)

\* len(paragraph.text): tokens are joined by single spaces, space tokens are
\* the text's own leading and trailing whitespace.
RECURSIVE TextLen(_)
TextLen(text) ==
    IF text = <<>> THEN 0
    ELSE TokenLen(Head(text))
         + (IF Len(text) > 1 /\ Head(text).t # "space" /\ text[2].t # "space"
            THEN 1 ELSE 0)
         + TextLen(Tail(text))

\* str.strip(): leading and trailing whitespace removed.
RECURSIVE LStrip(_)
LStrip(text) ==
    IF text # <<>> /\ Head(text).t = "space" THEN LStrip(Tail(text)) ELSE text

RECURSIVE RStrip(_)
RStrip(text) ==
    IF text # <<>> /\ text[Len(text)].t = "space"
    THEN RStrip(SubSeq(text, 1, Len(text) - 1)) ELSE text

Strip(text) == RStrip(LStrip(text))

----------------------------------------------------------------------------
(* Decimal numbers *)

DigitChars == <<"0", "1", "2", "3", "4", "5", "6", "7", "8", "9">>

IsDigit(ch) == \E i \in 1..10 : DigitChars[i] = ch

DigitVal(ch) == (CHOOSE i \in 1..10 : DigitChars[i] = ch) - 1

\* f"{n}" of a non-negative integer.
RECURSIVE DecStr(_)
DecStr(n) ==
    IF n < 10 THEN <<DigitChars[n + 1]>>
    ELSE Append(DecStr(n \div 10), DigitChars[(n % 10) + 1])

\* int(s) accepts a non-empty string of digits; anything else raises ValueError.
IntParses(s) == s # <<>> /\ \A i \in 1..Len(s) : IsDigit(s[i])

RECURSIVE IntOf(_)
IntOf(s) ==
    IF s = <<>> THEN 0
    ELSE 10 * IntOf(SubSeq(s, 1, Len(s) - 1)) + DigitVal(s[Len(s)])

----------------------------------------------------------------------------
(* The regular expressions of the paragraph classifier, on stripped text *)

\* The text is one word, and its lowered chunks are one of ws or one of ws
\* followed by ":"  --  ^(w1|w2|...):?$ under re.IGNORECASE.
OneWordOptColon(text, ws) ==
    /\ Len(text) = 1
    /\ text[1].t = "word"
    /\ \E w \in ws : LowerWord(text[1].w) \in {w, Append(w, ":")}

\* The text begins with one of the prefixes ps  --  ^(p1|p2|...) under
\* re.IGNORECASE.
StartsWithWord(text, ps) ==
    /\ text # <<>>
    /\ text[1].t = "word"
    /\ \E p \in ps : IsPrefix(p, LowerWord(text[1].w))

\* r'^abstract:?$'
AbstractStartRe(text) == OneWordOptColon(text, {<<"abstract">>})

\* r'^(introduction|methods|keywords):?$'
AbstractEndRe(text) ==
    OneWordOptColon(text, {<<"introduction">>, <<"method", "s">>,
                           <<"keyword", "s">>})

\* r'^(introduction|background|methods)'
BodyStartRe(text) ==
    StartsWithWord(text, {<<"introduction">>, <<"background">>,
                          <<"method", "s">>})

\* r'^references?:?$'
ReferencesRe(text) ==
    OneWordOptColon(text, {<<"reference">>, <<"reference", "s">>})

\* r'^(title|authors?|abstract|keywords?):'
LabelRe(text) ==
    StartsWithWord(text, {<<"title", ":">>, <<"author", ":">>,
                          <<"author", "s", ":">>, <<"abstract", ":">>,
                          <<"keyword", ":">>, <<"keyword", "s", ":">>})

\* r'^figure \d+:' and r'^table \d+:'
LegendRe(text, kind) ==
    /\ text # <<>>
    /\ text[1].t = "cite"
    /\ text[1].kind = kind
    /\ text[1].form = "bare"
    /\ text[1].digits # <<>>
    /\ text[1].letter = ""
    /\ text[1].sep = ":"

\* any(re.match(pattern, text, re.IGNORECASE) for pattern in skip_patterns)
SkipRe(text) ==
    \/ LabelRe(text)
    \/ LegendRe(text, "figure")
    \/ LegendRe(text, "table")
    \/ ReferencesRe(text)

\* rf'^\*?\*?figure\s+{N}[\.:)\s]+(.+)' (and the same for tables): the text
\* begins with the bare mention of number n, separators follow it and at
\* least one more character follows them.
CaptionRe(text, kind, n) ==
    /\ Len(text) >= 2
    /\ text[1].t = "cite"
    /\ text[1].kind = kind
    /\ text[1].form = "bare"
    /\ text[1].digits = DecStr(n)
    /\ text[1].letter = ""
    /\ text[1].sep \in {"", ".", ":", ")"}

----------------------------------------------------------------------------
(* DocumentProcessor: extraction *)

\* The content dictionary __init__ builds.
EmptyContent ==
    [title |-> <<>>, authors |-> <<>>, abstract |-> <<>>, body |-> <<>>,
     references |-> <<>>, figures |-> <<>>, tables |-> <<>>]

\* A word of the text has the chunk c, compared in lower case.
HasLowerChunk(text, cs) ==
    \E i \in 1..Len(text) :
        text[i].t = "word" /\ \E k \in 1..Len(text[i].w) :
                                  LowerChunk(text[i].w[k]) \in cs

\* 'title:' in para.text.lower()
HasTitleLabel(text) ==
    \E i \in 1..Len(text) :
        /\ text[i].t = "word"
        /\ \E k \in 1..(Len(text[i].w) - 1) :
              LowerChunk(text[i].w[k]) = "title" /\ text[i].w[k + 1] = ":"

\* str.replace('Title:', '') within a word: every occurrence, in this case
\* of the letters only.
RECURSIVE WithoutTitleLabel(_)
WithoutTitleLabel(w) ==
    IF w = <<>> THEN <<>>
    ELSE IF Len(w) >= 2 /\ w[1] = "Title" /\ w[2] = ":"
    THEN WithoutTitleLabel(SubSeq(w, 3, Len(w)))
    ELSE <<Head(w)>> \o WithoutTitleLabel(Tail(w))

ReplaceTitleLabel(text) ==
    [i \in 1..Len(text) |->
        IF text[i].t = "word" THEN Word(WithoutTitleLabel(text[i].w))
        ELSE text[i]]

\* str.strip() of a text in which words may have become empty: an empty
\* word at an end leaves only the space that joined it to its neighbour.
IsBlank(tok) == tok.t = "space" \/ (tok.t = "word" /\ tok.w = <<>>)

RECURSIVE StripBlank(_)
StripBlank(text) ==
    IF text = <<>> THEN <<>>
    ELSE IF IsBlank(Head(text)) THEN StripBlank(Tail(text))
    ELSE IF IsBlank(text[Len(text)])
    THEN StripBlank(SubSeq(text, 1, Len(text) - 1))
    ELSE text

\* The paragraphs _extract_title looks at first, and _extract_authors at all.
TitleScanLimit == 10
AuthorScanLimit == 30

\* The condition under which _extract_title takes a paragraph as the title.
TitleHeuristic(para) ==
    \/ para.bold
    \/ HasTitleLabel(para.raw)
    \/ \E k \in 1..Len(para.style) : para.style[k] = "Title"

\* The first index of lo..hi that satisfies P, or 0.
FirstPara(ps, hi, P(_)) ==
    LET hits == {k \in 1..hi : k <= Len(ps) /\ P(ps[k])}
    IN  IF hits = {} THEN 0 ELSE CHOOSE k \in hits : \A m \in hits : k <= m

NonEmptyPara(para) == Strip(para.raw) # <<>>

TitlePara(para) == NonEmptyPara(para) /\ TitleHeuristic(para)

\* _extract_title: the value of content['title'] after it.
extract_title(ps) ==
    LET t == FirstPara(ps, TitleScanLimit, TitlePara)
        f == FirstPara(ps, Len(ps), NonEmptyPara)
    IN  IF t # 0 THEN StripBlank(ReplaceTitleLabel(ps[t].raw))
        ELSE IF f # 0 THEN Strip(ps[f].raw)
        ELSE <<>>

\* re.search(r'author|affiliation', text, re.IGNORECASE)
AuthorRe(text) == HasLowerChunk(text, {"author", "affiliation"})

\* A token whose last character is a digit, a token whose first is a comma.
EndsWithDigit(tok) ==
    \/ tok.t = "word" /\ tok.w # <<>> /\ IsDigit(tok.w[Len(tok.w)])
    \/ tok.t = "cite" /\ tok.form = "bare" /\ tok.letter = "" /\ tok.sep = ""

StartsWithComma(tok) == tok.t = "word" /\ tok.w # <<>> /\ tok.w[1] = ","

\* re.search(r'\d+\s*,', text)
DigitCommaRe(text) ==
    \/ \E i \in 1..Len(text) :
          /\ text[i].t = "word"
          /\ \E k \in 1..(Len(text[i].w) - 1) :
                IsDigit(text[i].w[k]) /\ text[i].w[k + 1] = ","
    \/ \E i \in 1..(Len(text) - 1) :
          EndsWithDigit(text[i]) /\ StartsWithComma(text[i + 1])

\* The loop of _extract_authors from paragraph i on: the lines collected.
RECURSIVE AuthorsScan(_, _, _, _)
AuthorsScan(ps, i, author_section, acc) ==
    IF i > Len(ps) \/ i > AuthorScanLimit THEN acc
    ELSE LET text == Strip(ps[i].raw) IN
         IF AuthorRe(text) THEN AuthorsScan(ps, i + 1, TRUE, acc)
         ELSE IF ~author_section THEN AuthorsScan(ps, i + 1, FALSE, acc)
         ELSE IF HasLowerChunk(text, {"@"}) \/ DigitCommaRe(text)
         THEN AuthorsScan(ps, i + 1, TRUE, Append(acc, text))
         ELSE IF HasLowerChunk(text, {"abstract"}) THEN acc
         ELSE AuthorsScan(ps, i + 1, TRUE, acc)

extract_authors(ps) == AuthorsScan(ps, 1, FALSE, <<>>)

\* _extract_abstract with an end line that is passed over instead of ending
\* the loop.
RECURSIVE AbstractScan_NoBreak(_, _, _, _)
AbstractScan_NoBreak(ps, i, in_abstract, acc) ==
    IF i > Len(ps) THEN acc
    ELSE LET text == Strip(ps[i].raw) IN
         IF AbstractStartRe(text) THEN AbstractScan_NoBreak(ps, i + 1, TRUE, acc)
         ELSE IF in_abstract /\ AbstractEndRe(text)
              THEN AbstractScan_NoBreak(ps, i + 1, in_abstract, acc)
         ELSE IF in_abstract /\ text # <<>>
              THEN AbstractScan_NoBreak(ps, i + 1, in_abstract, Append(acc, text))
         ELSE AbstractScan_NoBreak(ps, i + 1, in_abstract, acc)

\* The loop of _extract_abstract from paragraph i on: the lines collected.
RECURSIVE AbstractScan(_, _, _, _)
AbstractScan(ps, i, in_abstract, acc) ==
    IF i > Len(ps) THEN acc
    ELSE LET text == Strip(ps[i].raw) IN
         IF AbstractStartRe(text) THEN AbstractScan(ps, i + 1, TRUE, acc)
         ELSE IF in_abstract /\ AbstractEndRe(text) THEN acc
         ELSE IF in_abstract /\ text # <<>>
              THEN AbstractScan(ps, i + 1, in_abstract, Append(acc, text))
         ELSE AbstractScan(ps, i + 1, in_abstract, acc)

\* ' '.join(lines)
RECURSIVE JoinSpace(_)
JoinSpace(lines) ==
    IF lines = <<>> THEN <<>>
    ELSE IF Len(lines) = 1 THEN lines[1]
    ELSE lines[1] \o <<Space>> \o JoinSpace(Tail(lines))

extract_abstract(ps) == JoinSpace(AbstractScan(ps, 1, FALSE, <<>>))

ContainsChunk(name, c) == \E i \in 1..Len(name) : name[i] = c

HeadingMaxLen == 100

\* _is_heading: a paragraph that has a style is a heading exactly when the
\* style's name contains "Heading"; only one without a style is tested for a
\* bold first run and a short text.
is_heading(para) ==
    IF para.style # <<>> THEN ContainsChunk(para.style, "Heading")
    ELSE para.bold /\ TextLen(para.raw) < HeadingMaxLen

\* _extract_body with a loop that passes over the "References" line
\* instead of ending there.
RECURSIVE BodyScan_NoBreak(_, _, _, _)
BodyScan_NoBreak(ps, i, in_body, acc) ==
    IF i > Len(ps) THEN acc
    ELSE LET text == Strip(ps[i].raw)
             now_in == in_body \/ BodyStartRe(text)
         IN  IF SkipRe(text) THEN BodyScan_NoBreak(ps, i + 1, now_in, acc)
             ELSE IF now_in /\ text # <<>>
                  THEN BodyScan_NoBreak(ps, i + 1, now_in,
                           Append(acc,
                               [text |-> text,
                                style |-> IF ps[i].style # <<>>
                                          THEN ps[i].style ELSE <<"Normal">>,
                                is_heading |-> is_heading(ps[i])]))
             ELSE BodyScan_NoBreak(ps, i + 1, now_in, acc)

\* The loop of _extract_body from paragraph i on.
RECURSIVE BodyScan(_, _, _, _)
BodyScan(ps, i, in_body, acc) ==
    IF i > Len(ps) THEN acc
    ELSE LET text == Strip(ps[i].raw)
             now_in == in_body \/ BodyStartRe(text)
         IN  IF now_in /\ ReferencesRe(text) THEN acc
             ELSE IF SkipRe(text) THEN BodyScan(ps, i + 1, now_in, acc)
             ELSE IF now_in /\ text # <<>>
                  THEN BodyScan(ps, i + 1, now_in,
                           Append(acc,
                               [text |-> text,
                                style |-> IF ps[i].style # <<>>
                                          THEN ps[i].style ELSE <<"Normal">>,
                                is_heading |-> is_heading(ps[i])]))
             ELSE BodyScan(ps, i + 1, now_in, acc)

extract_body(ps) == BodyScan(ps, 1, FALSE, <<>>)

\* _find_figure_caption and _find_table_caption: the rest of the first line
\* that matches the caption pattern, else "Figure N" / "Table N".
RECURSIVE FindCaption(_, _, _, _)
FindCaption(ps, i, kind, n) ==
    IF i > Len(ps) THEN <<Cite(kind, "bare", DecStr(n), "", "")>>
    ELSE LET text == Strip(ps[i].raw) IN
         IF CaptionRe(text, kind, n) THEN Tail(text)
         ELSE FindCaption(ps, i + 1, kind, n)

\* The loop of _extract_figures from relationship i on; an image whose blob
\* cannot be read is skipped and the counter does not advance.
RECURSIVE FiguresScan(_, _, _, _)
FiguresScan(ps, imgs, i, acc) ==
    IF i > Len(imgs) THEN acc
    ELSE IF imgs[i].blobOk
         THEN FiguresScan(ps, imgs, i + 1,
                  Append(acc, [number |-> Len(acc) + 1,
                               image_data |-> imgs[i],
                               caption |-> FindCaption(ps, 1, "figure",
                                                       Len(acc) + 1)]))
         ELSE FiguresScan(ps, imgs, i + 1, acc)

extract_figures(ps, imgs) == FiguresScan(ps, imgs, 1, <<>>)

\* [cell.text.strip() for cell in row.cells] for each row
TableData(grid) ==
    [r \in 1..Len(grid) |-> [c \in 1..Len(grid[r]) |-> Strip(grid[r][c])]]

\* The loop of _extract_tables from table i on; the number is the table's
\* index in the document, also after a table that could not be read.
RECURSIVE TablesScan(_, _, _, _)
TablesScan(ps, tbls, i, acc) ==
    IF i > Len(tbls) THEN acc
    ELSE IF tbls[i].readOk
         THEN TablesScan(ps, tbls, i + 1,
                  Append(acc, [number |-> i,
                               data |-> TableData(tbls[i].grid),
                               table_obj |-> tbls[i],
                               caption |-> FindCaption(ps, 1, "table", i)]))
         ELSE TablesScan(ps, tbls, i + 1, acc)

extract_tables(ps, tbls) == TablesScan(ps, tbls, 1, <<>>)

\* r'^(figure|table)' under re.IGNORECASE
AssetStartRe(text) ==
    /\ text # <<>>
    /\ \/ text[1].t = "cite" /\ text[1].form = "bare"
       \/ /\ text[1].t = "word" /\ text[1].w # <<>>
          /\ LowerChunk(text[1].w[1]) \in {"figure", "table"}

\* The loop of _extract_references from paragraph i on: the lines collected.
RECURSIVE ReferencesScan(_, _, _, _)
ReferencesScan(ps, i, in_references, acc) ==
    IF i > Len(ps) THEN acc
    ELSE LET text == Strip(ps[i].raw) IN
         IF ReferencesRe(text) THEN ReferencesScan(ps, i + 1, TRUE, acc)
         ELSE IF in_references /\ AssetStartRe(text) THEN acc
         ELSE IF in_references /\ text # <<>>
         THEN ReferencesScan(ps, i + 1, in_references, Append(acc, text))
         ELSE ReferencesScan(ps, i + 1, in_references, acc)

extract_references(ps) == ReferencesScan(ps, 1, FALSE, <<>>)

----------------------------------------------------------------------------
(* DocumentProcessor.detect_citations *)

\* A citation pattern: the form of mention it matches and whether its group
\* is (\d+[A-Z]?) or (\d+).
figure_patterns ==
    << [form |-> "abbr", letter |-> TRUE],     \* \(\s*\*?\*?Fig\.?\s+(\d+[A-Z]?)\s*\)
       [form |-> "bare", letter |-> TRUE],     \* \*?\*?Figure\s+(\d+[A-Z]?)\*?\*?
       [form |-> "paren", letter |-> TRUE] >>  \* \(\s*\*?\*?Figure\s+(\d+[A-Z]?)\s*\)

table_patterns ==
    << [form |-> "abbr", letter |-> FALSE],    \* \(\s*\*?\*?Tab\.?\s+(\d+)\s*\)
       [form |-> "bare", letter |-> FALSE],    \* \*?\*?Table\s+(\d+)\*?\*?
       [form |-> "paren", letter |-> FALSE] >> \* \(\s*\*?\*?Table\s+(\d+)\s*\)

\* The characters [A-Z] matches under re.IGNORECASE: both cases.
ClassAZ == UpperLetters \cup LowerLetters

\* The letter the group takes after the digits.
GroupLetter(pat, tok) ==
    IF pat.letter /\ tok.letter \in ClassAZ THEN <<tok.letter>> ELSE <<>>

\* Whether the pattern matches in the text of the token.  The unanchored
\* "Figure N" matches inside "(Figure N)" too; a parenthesised pattern needs
\* the ")" right after its group.
PatternMatches(kind, pat, tok) ==
    /\ tok.t = "cite"
    /\ tok.kind = kind
    /\ tok.digits # <<>>
    /\ IF pat.form = "bare" THEN tok.form \in {"bare", "paren"}
       ELSE /\ tok.form = pat.form
            /\ tok.letter = "" \/ GroupLetter(pat, tok) # <<>>

\* match.group(1)
MatchGroup(pat, tok) == tok.digits \o GroupLetter(pat, tok)

\* match.group(0): the text matched, itself a mention.
MatchText(kind, pat, tok) ==
    LET g == GroupLetter(pat, tok)
    IN  Cite(kind, pat.form, tok.digits, IF g = <<>> THEN "" ELSE g[1], "")

\* for match in re.finditer(pattern, text, re.IGNORECASE): citations.append(..)
RECURSIVE FindIter(_, _, _, _, _)
FindIter(kind, pat, text, para_idx, j) ==
    IF j > Len(text) THEN <<>>
    ELSE (IF PatternMatches(kind, pat, text[j])
          THEN << [type |-> kind,
                   number |-> MatchGroup(pat, text[j]),
                   position |-> para_idx,
                   context |-> text,
                   match_text |-> MatchText(kind, pat, text[j])] >>
          ELSE <<>>)
         \o FindIter(kind, pat, text, para_idx, j + 1)

\* for pattern in patterns: ...
PatternsScan(kind, pats, text, para_idx) ==
    Flatten([k \in 1..Len(pats) |-> FindIter(kind, pats[k], text, para_idx, 1)])

\* The body of the loop over paragraphs: figure patterns, then table patterns.
ParagraphCitations(text, para_idx) ==
    PatternsScan("figure", figure_patterns, text, para_idx)
    \o PatternsScan("table", table_patterns, text, para_idx)

\* for para_idx, para_dict in enumerate(self.content['body']): ...
AllMatches(body) ==
    Flatten([i \in 1..Len(body) |-> ParagraphCitations(body[i].text, i - 1)])

CitationKey(c) == <<c.type, c.number, c.position>>

\* Unique with the last citation of each key kept instead of the first.
Unique_KeepsLast(cs, seen, acc) ==
    LET keep == {i \in 1..Len(cs) :
                    \A k \in (i + 1)..Len(cs) :
                        CitationKey(cs[k]) # CitationKey(cs[i])}
        nth(n) == CHOOSE i \in keep : Cardinality({k \in keep : k < i}) = n - 1
    IN  [n \in 1..Cardinality(keep) |-> cs[nth(n)]]

\* The loop over citations that keeps the first citation of each key.
RECURSIVE Unique(_, _, _)
Unique(cs, seen, acc) ==
    IF cs = <<>> THEN acc
    ELSE IF CitationKey(Head(cs)) \in seen THEN Unique(Tail(cs), seen, acc)
    ELSE Unique(Tail(cs), seen \cup {CitationKey(Head(cs))},
                Append(acc, Head(cs)))

\* InsertByPosition for a sort that is not stable: c goes before the elements
\* of its own position.
RECURSIVE InsertByPosition_Unstable(_, _)
InsertByPosition_Unstable(sorted, c) ==
    IF sorted = <<>> THEN <<c>>
    ELSE IF Head(sorted).position < c.position
         THEN <<Head(sorted)>> \o InsertByPosition_Unstable(Tail(sorted), c)
         ELSE <<c>> \o sorted

\* Where sorted() puts c in an already sorted list: after every element whose
\* key is not greater (the sort is stable).
RECURSIVE InsertByPosition(_, _)
InsertByPosition(sorted, c) ==
    IF sorted = <<>> THEN <<c>>
    ELSE IF Head(sorted).position <= c.position
         THEN <<Head(sorted)>> \o InsertByPosition(Tail(sorted), c)
         ELSE <<c>> \o sorted

\* sorted(unique_citations, key=lambda x: x['position'])
RECURSIVE SortedByPosition(_)
SortedByPosition(cs) ==
    IF cs = <<>> THEN <<>>
    ELSE InsertByPosition(SortedByPosition(SubSeq(cs, 1, Len(cs) - 1)),
                          cs[Len(cs)])

detect_citations(c) == SortedByPosition(Unique(AllMatches(c.body), {}, <<>>))

----------------------------------------------------------------------------
(* JournalFormatter: placement *)

\* A block of the output document.  type is "heading" or "paragraph" (a body
\* paragraph, with its text), "empty" (a paragraph without text), "image" (a
\* picture, with its width in half inches and the image it shows), "caption"
\* (kind, number and the caption's text), "table" (a grid of cells) or
\* "placeholder" (the italic "[Figure {label} - insertion failed]").
Block(type) ==
    [type |-> type, kind |-> "", text |-> <<>>, number |-> 0, label |-> <<>>,
     grid |-> <<>>, width |-> 0, image |-> <<>>]

EmptyBlock == Block("empty")

TextBlock(para_dict) ==
    [Block(IF para_dict.is_heading THEN "heading" ELSE "paragraph")
        EXCEPT !.text = para_dict.text]

ImageBlock(image_data, width) ==
    [Block("image") EXCEPT !.kind = "figure", !.width = width,
                           !.image = <<image_data>>]

\* f"Figure {fig_num}: {figure['caption']}", f"Table {table_num}: {caption}"
CaptionBlock(kind, number, caption) ==
    [Block("caption") EXCEPT !.kind = kind, !.number = number,
                             !.text = caption]

\* f"[Figure {citation['number']} - insertion failed]", in italics
PlaceholderBlock(kind, label) ==
    [Block("placeholder") EXCEPT !.kind = kind, !.label = label]

\* The figure widths of app.py's slider and the cap of _insert_figure, in
\* half inches.
MaxFigureWidth == 13

\* str.rstrip('ABCDEFGHIJKLMNOPQRSTUVWXYZ')
RECURSIVE RStripUpper(_)
RStripUpper(s) ==
    IF s # <<>> /\ s[Len(s)] \in UpperLetters
    THEN RStripUpper(SubSeq(s, 1, Len(s) - 1)) ELSE s

\* [x for x in items if x['number'] == n]
Matching(items, n) == SelectSeq(items, LAMBDA x : x.number = n)

\* _insert_figure with an exception handler that adds no placeholder.
FigureBlocks_NoPlaceholder(figure, citation, fig_num, fw) ==
    LET img == figure.image_data
        tail == << CaptionBlock("figure", fig_num, figure.caption),
                   EmptyBlock >>
    IN  IF img.pilOk /\ img.docxOk
        THEN << EmptyBlock, ImageBlock(img, Min2(fw, MaxFigureWidth)) >>
             \o tail
        ELSE IF img.pilOk THEN << EmptyBlock, EmptyBlock, EmptyBlock >>
        ELSE IF img.docxOk
        THEN << EmptyBlock, ImageBlock(img, fw) >> \o tail
        ELSE << EmptyBlock, EmptyBlock >>

\* The blocks _insert_figure adds for a figure that exists.  Image.open and
\* the sizing succeed or fail with the image (pilOk), and so does add_picture
\* (docxOk); a failed attempt leaves its empty centred paragraph behind.
FigureBlocks(figure, citation, fig_num, fw) ==
    LET img == figure.image_data
        tail == << CaptionBlock("figure", fig_num, figure.caption),
                   EmptyBlock >>
    IN  IF img.pilOk /\ img.docxOk
        THEN << EmptyBlock, ImageBlock(img, Min2(fw, MaxFigureWidth)) >>
             \o tail
        ELSE IF img.pilOk
        THEN << EmptyBlock, EmptyBlock, EmptyBlock,
                PlaceholderBlock("figure", citation.number) >>
        ELSE IF img.docxOk
        THEN << EmptyBlock, ImageBlock(img, fw) >> \o tail
        ELSE << EmptyBlock, EmptyBlock,
                PlaceholderBlock("figure", citation.number) >>

\* _insert_figure: the blocks it appends to the document.
insert_figure(c, citation, fw) ==
    LET fig_num_str == RStripUpper(citation.number) IN
    IF ~IntParses(fig_num_str)
    THEN << PlaceholderBlock("figure", citation.number) >>
    ELSE LET matching_figures == Matching(c.figures, IntOf(fig_num_str)) IN
         IF matching_figures = <<>> THEN <<>>
         ELSE FigureBlocks(matching_figures[1], citation, IntOf(fig_num_str),
                           fw)

\* doc.add_table(rows, cols) filled from table_data: cell (i, j) takes the
\* text of table_data[i][j] and is bold in the first row; the cells past the
\* end of a shorter row stay empty.
GridBlock(table_data, rows, cols) ==
    [Block("table") EXCEPT !.kind = "table", !.grid =
        [i \in 1..rows |->
            [j \in 1..cols |->
                IF j <= Len(table_data[i])
                THEN [text |-> table_data[i][j], bold |-> (i = 1)]
                ELSE [text |-> <<>>, bold |-> FALSE]]]]

\* doc.add_table(rows, cols) before any cell is filled.
BlankGridBlock(rows, cols) ==
    [Block("table") EXCEPT !.kind = "table", !.grid =
        [i \in 1..rows |-> [j \in 1..cols |-> [text |-> <<>>, bold |-> FALSE]]]]

\* The blocks _insert_table adds for a table that exists and has rows.  With
\* the table's data, doc.add_table or the filling of the first cell may raise
\* (fails): what was added before stays and the handler adds the placeholder.
TableBlocks(table_data_dict, citation, table_num) ==
    LET table_data == table_data_dict.data
        rows == Len(table_data)
        cols == Max({Len(table_data[i]) : i \in 1..rows})
        fails == table_data_dict.table_obj.fails
        head == << EmptyBlock,
                   CaptionBlock("table", table_num, table_data_dict.caption) >>
    IN  IF ~(rows > 0 /\ cols > 0) THEN head \o << EmptyBlock >>
        ELSE IF fails = "add_table"
        THEN head \o << PlaceholderBlock("table", citation.number) >>
        ELSE IF fails = "cell"
        THEN head \o << BlankGridBlock(rows, cols),
                        PlaceholderBlock("table", citation.number) >>
        ELSE head \o << GridBlock(table_data, rows, cols), EmptyBlock >>

\* _insert_table: the blocks it appends to the document.
insert_table(c, citation) ==
    IF ~IntParses(citation.number)
    THEN << PlaceholderBlock("table", citation.number) >>
    ELSE LET matching_tables == Matching(c.tables, IntOf(citation.number)) IN
         IF matching_tables = <<>> THEN <<>>
         ELSE IF matching_tables[1].data = <<>> THEN <<>>
         ELSE TableBlocks(matching_tables[1], citation,
                          IntOf(citation.number))

\* An insertion map whose keys are one off.
InsertionMap_OffByOne(cites, idx) ==
    SelectSeq(cites, LAMBDA x : x.position = idx + 1)

\* insertion_map[idx]: the citations of position idx, in list order.
InsertionMap(cites, idx) == SelectSeq(cites, LAMBDA x : x.position = idx)

\* for citation in insertion_map[idx]: insert the figure or the table
InsertAll(c, cs, fw) ==
    Flatten([k \in 1..Len(cs) |->
        IF cs[k].type = "figure" THEN insert_figure(c, cs[k], fw)
        ELSE IF cs[k].type = "table" THEN insert_table(c, cs[k])
        ELSE <<>>])

\* The body of the loop of _add_body_with_citations for paragraph idx.
ParagraphBlocks(c, cites, idx, fw) ==
    << TextBlock(c.body[idx + 1]) >> \o InsertAll(c, InsertionMap(cites, idx), fw)

\* _add_body_with_citations: the blocks it appends to the document.
add_body_with_citations(c, cites, fw) ==
    Flatten([i \in 1..Len(c.body) |-> ParagraphBlocks(c, cites, i - 1, fw)])

PageBreakBlock == Block("page_break")

SectionBlock(type, text) == [Block(type) EXCEPT !.text = text]

\* _add_title_page: the title if there is one, the authors, a page break.
add_title_page(c) ==
    (IF c.title # <<>> THEN << SectionBlock("title", c.title) >> ELSE <<>>)
    \o [k \in 1..Len(c.authors) |-> SectionBlock("author", c.authors[k])]
    \o << PageBreakBlock >>

\* _add_abstract: the heading "Abstract", the abstract and an empty paragraph.
add_abstract(c) ==
    IF c.abstract # <<>>
    THEN << SectionBlock("section_heading", <<Word(<<"Abstract">>)>>),
            SectionBlock("abstract", c.abstract),
            EmptyBlock >>
    ELSE <<>>

\* _add_references: a page break, the heading "References", the references.
add_references(c) ==
    IF c.references # <<>>
    THEN << PageBreakBlock,
            SectionBlock("section_heading",
                         <<Word(<<"Reference", "s">>)>>) >>
         \o [k \in 1..Len(c.references) |->
                SectionBlock("reference", c.references[k])]
    ELSE <<>>

\* format_document: the paragraphs of the Document it returns, body being
\* those _add_body_with_citations adds.
format_document(c, body) ==
    add_title_page(c) \o add_abstract(c) \o body \o add_references(c)

----------------------------------------------------------------------------
(* The pipeline of app.py *)

\* A locator that removes the mentions it matched from the body text.
content_after_detect_consuming(c) ==
    [c EXCEPT !.body =
        [i \in 1..Len(c.body) |->
            [c.body[i] EXCEPT !.text =
                SelectSeq(c.body[i].text, LAMBDA tok : tok.t # "cite")]]]

\* Neither detect_citations nor format_document assigns to the content
\* dictionary or to anything in it: the content each leaves behind.
content_after_detect(c) == c

content_after_format(c) == c

MaxCalls == 2

Inputs == <<paragraphs, images, docTables, figure_width>>

ExtractTitle ==
    /\ pc = "title"
    /\ content' = [content EXCEPT !.title = extract_title(paragraphs)]
    /\ pc' = "authors"
    /\ UNCHANGED <<Inputs, citations, firstCitations, extracted, blocks,
                   document, raised, detects, formats>>

ExtractAuthors ==
    /\ pc = "authors"
    /\ content' = [content EXCEPT !.authors = extract_authors(paragraphs)]
    /\ pc' = "abstract"
    /\ UNCHANGED <<Inputs, citations, firstCitations, extracted, blocks,
                   document, raised, detects, formats>>

ExtractAbstract ==
    /\ pc = "abstract"
    /\ content' = [content EXCEPT !.abstract = extract_abstract(paragraphs)]
    /\ pc' = "body"
    /\ UNCHANGED <<Inputs, citations, firstCitations, extracted, blocks,
                   document, raised, detects, formats>>

ExtractBody ==
    /\ pc = "body"
    /\ content' = [content EXCEPT !.body = extract_body(paragraphs)]
    /\ pc' = "references"
    /\ UNCHANGED <<Inputs, citations, firstCitations, extracted, blocks,
                   document, raised, detects, formats>>

ExtractReferences ==
    /\ pc = "references"
    /\ content' = [content EXCEPT
                      !.references = extract_references(paragraphs)]
    /\ pc' = "figures"
    /\ UNCHANGED <<Inputs, citations, firstCitations, extracted, blocks,
                   document, raised, detects, formats>>

ExtractFigures ==
    /\ pc = "figures"
    /\ content' = [content EXCEPT
                      !.figures = extract_figures(paragraphs, images)]
    /\ pc' = "tables"
    /\ UNCHANGED <<Inputs, citations, firstCitations, extracted, blocks,
                   document, raised, detects, formats>>

\* The last step of extract_all_content, which returns self.content.
ExtractTables ==
    /\ pc = "tables"
    /\ content' = [content EXCEPT
                      !.tables = extract_tables(paragraphs, docTables)]
    /\ extracted' = content'
    /\ pc' = "ready"
    /\ UNCHANGED <<Inputs, citations, firstCitations, blocks, document,
                   raised, detects, formats>>

DetectCitations ==
    /\ pc = "ready"
    /\ detects < MaxCalls
    /\ citations' = detect_citations(content)
    /\ firstCitations' = IF detects = 0 THEN citations' ELSE firstCitations
    /\ content' = content_after_detect(content)
    /\ detects' = detects + 1
    /\ UNCHANGED <<Inputs, extracted, blocks, document, raised, pc, formats>>

\* format_document with the citations detect_citations returned last.  Every
\* exception of an insertion is caught where it is raised.
FormatDocument ==
    /\ pc = "ready"
    /\ detects > 0
    /\ formats < MaxCalls
    /\ blocks' = add_body_with_citations(content, citations, figure_width)
    /\ document' = format_document(content, blocks')
    /\ raised' = FALSE
    /\ content' = content_after_format(content)
    /\ formats' = formats + 1
    /\ UNCHANGED <<Inputs, citations, firstCitations, extracted, pc, detects>>

Next ==
    \/ ExtractTitle
    \/ ExtractAuthors
    \/ ExtractAbstract
    \/ ExtractBody
    \/ ExtractReferences
    \/ ExtractFigures
    \/ ExtractTables
    \/ DetectCitations
    \/ FormatDocument

\* The state after DocumentProcessor.__init__ and JournalFormatter.__init__.
Constructed ==
    /\ content = EmptyContent
    /\ citations = <<>>
    /\ firstCitations = <<>>
    /\ extracted = EmptyContent
    /\ blocks = <<>>
    /\ document = <<>>
    /\ raised = FALSE
    /\ pc = "title"
    /\ detects = 0
    /\ formats = 0

----------------------------------------------------------------------------
(* Source documents *)

Para(raw, style, bold) == [raw |-> raw, style |-> style, bold |-> bold]

Normal == <<"Normal">>
Heading1 == <<"Heading", " 1">>

Plain == Word(<<"alpha">>)

\* The heading line "Introduction", which opens the body.
IntroPara == Para(<<Word(<<"Introduction">>)>>, Heading1, TRUE)

Image(blobOk, pilOk, docxOk) ==
    [blobOk |-> blobOk, pilOk |-> pilOk, docxOk |-> docxOk]

GoodImage == Image(TRUE, TRUE, TRUE)

\* The text of the cell in row i, column j of a table of the source; the
\* cells of the second column carry surrounding whitespace.
CellText(i, j) ==
    IF j = 2 THEN <<Space, Word(<<"r", DecStr(i)[1], "c", DecStr(j)[1]>>), Space>>
    ELSE <<Word(<<"r", DecStr(i)[1], "c", DecStr(j)[1]>>)>>

\* The table whose rows have the given lengths.
TableOfShape(shape) ==
    [readOk |-> TRUE,
     fails |-> "",
     grid |-> [i \in 1..Len(shape) |-> [j \in 1..shape[i] |-> CellText(i, j)]]]

DefaultFigureWidth == 12

NonEmptySeqsUpTo(S, n) == SeqsUpTo(S, n) \ {<<>>}

\* The ways to cut the tokens toks into at most n non-empty texts.
RECURSIVE Splits(_, _)
Splits(toks, n) ==
    IF toks = <<>> THEN {<<>>}
    ELSE IF n = 0 THEN {}
    ELSE UNION { { <<SubSeq(toks, 1, k)>> \o rest :
                      rest \in Splits(SubSeq(toks, k + 1, Len(toks)), n - 1) } :
                 k \in 1..Len(toks) }

\* The documents that hold, after the heading "Introduction", up to MaxBody
\* paragraphs of style Normal with up to MaxTokens tokens of the set toks
\* between them.
MaxBody == 2
MaxTokens == 3

BodyDocs(toks) ==
    { <<IntroPara>> \o [i \in 1..Len(texts) |-> Para(texts[i], Normal, FALSE)] :
        texts \in UNION { Splits(ts, MaxBody) :
                             ts \in NonEmptySeqsUpTo(toks, MaxTokens) } }

\* Documents for the citation locator: every form of mention, one figure and
\* one table.
LocateMentions ==
    { Cite("figure", "abbr", <<"1">>, "", ""),
      Cite("figure", "bare", <<"1">>, "", ""),
      Cite("figure", "paren", <<"1">>, "", ""),
      Cite("figure", "bare", <<"1">>, "A", ""),
      Cite("table", "bare", <<"1">>, "", ""),
      Cite("table", "paren", <<"1">>, "", ""),
      Plain }

Init ==
    /\ Constructed
    /\ paragraphs \in BodyDocs(LocateMentions)
    /\ images = <<GoodImage>>
    /\ docTables = <<TableOfShape(<<1>>)>>
    /\ figure_width = DefaultFigureWidth

Spec == Init /\ [][Next]_vars

\* Documents for the placement: mentions of figure 1 without a suffix, with
\* an upper-case and with a lower-case one, a mention of table 1 and plain
\* text; up to MaxFigures images and MaxTables tables, all readable.
MaxFigures == 1
MaxTables == 1

PlaceMentions ==
    { Cite("figure", "bare", <<"1">>, "", ""),
      Cite("figure", "bare", <<"1">>, "A", ""),
      Cite("figure", "bare", <<"1">>, "a", ""),
      Cite("table", "bare", <<"1">>, "", ""),
      Plain }

InitPlace ==
    /\ Constructed
    /\ paragraphs \in BodyDocs(PlaceMentions)
    /\ images \in SeqsUpTo({GoodImage}, MaxFigures)
    /\ docTables \in SeqsUpTo({TableOfShape(<<1>>)}, MaxTables)
    /\ figure_width = DefaultFigureWidth

SpecPlace == InitPlace /\ [][Next]_vars

\* Documents for the decoding of images: mentions of figures 1 and 2, and up
\* to MaxFigures images, each of which Image.open and add_picture can or
\* cannot read.
DecodeMentions ==
    { Cite("figure", "bare", <<"1">>, "", ""),
      Cite("figure", "abbr", <<"2">>, "A", ""),
      Plain }

InitDecode ==
    /\ Constructed
    /\ paragraphs \in BodyDocs(DecodeMentions)
    /\ images \in SeqsUpTo({Image(TRUE, p, d) : p, d \in BOOLEAN}, MaxFigures)
    /\ docTables = <<>>
    /\ figure_width = DefaultFigureWidth

SpecDecode == InitDecode /\ [][Next]_vars

\* Documents for the tables: mentions of table 1 and plain text, and no table
\* or one table of up to MaxRows rows of up to MaxCols cells each (a row may
\* hold no cell at all).
MaxRows == 2
MaxCols == 2

TableMentions == { Cite("table", "bare", <<"1">>, "", ""), Plain }

InitTables ==
    /\ Constructed
    /\ paragraphs \in BodyDocs(TableMentions)
    /\ images = <<>>
    /\ docTables \in {<<>>} \cup { <<TableOfShape(shape)>> :
                                     shape \in SeqsUpTo(0..MaxCols, MaxRows) }
    /\ figure_width = DefaultFigureWidth

SpecTables == InitTables /\ [][Next]_vars

\* Documents for the abstract: up to MaxParas lines, each an "Abstract"
\* line, an end line, text or whitespace.
MaxParas == 4

AbstractLines ==
    { <<Word(<<"Abstract">>)>>,
      <<Space, Word(<<"ABSTRACT", ":">>), Space>>,
      <<Word(<<"Introduction">>)>>,
      <<Word(<<"Keyword", "s", ":">>)>>,
      <<Plain>>,
      <<Space, Word(<<"beta">>), Word(<<"gamma">>), Space>>,
      <<Space>> }

InitAbstract ==
    /\ Constructed
    /\ paragraphs \in SeqsUpTo({ Para(raw, Normal, FALSE) : raw \in AbstractLines },
                               MaxParas)
    /\ images = <<>>
    /\ docTables = <<>>
    /\ figure_width = DefaultFigureWidth

SpecAbstract == InitAbstract /\ [][Next]_vars

\* Documents for the headings: after the heading "Introduction", up to
\* MaxBody paragraphs, each short or long, with or without a style, with or
\* without a bold first run.
HeadingTexts ==
    { <<Plain>>,
      <<Word(<<"Lorem99">>), Space>>,
      <<Word(<<"Lorem100">>)>> }

HeadingParas ==
    { Para(raw, style, bold) :
        raw \in HeadingTexts, style \in {<<>>, Normal, Heading1},
        bold \in BOOLEAN }

InitHeading ==
    /\ Constructed
    /\ \E ps \in SeqsUpTo(HeadingParas, MaxBody) :
          paragraphs = <<IntroPara>> \o ps
    /\ images = <<>>
    /\ docTables = <<>>
    /\ figure_width = DefaultFigureWidth

SpecHeading == InitHeading /\ [][Next]_vars

\* Documents for the widths: mentions of figure 1, up to MaxFigures images
\* that Image.open and add_picture can or cannot read, and every width of the
\* slider of app.py (3.0 to 7.0 inches in steps of 0.5), in half inches.
SliderMinWidth == 6
SliderMaxWidth == 14

WidthMentions == { Cite("figure", "bare", <<"1">>, "", ""), Plain }

InitWidth ==
    /\ Constructed
    /\ paragraphs \in BodyDocs(WidthMentions)
    /\ images \in SeqsUpTo({Image(TRUE, p, d) : p, d \in BOOLEAN}, MaxFigures)
    /\ docTables = <<>>
    /\ figure_width \in SliderMinWidth..SliderMaxWidth

SpecWidth == InitWidth /\ [][Next]_vars

\* Documents for the numbering: up to MaxAssets images whose blob can or
\* cannot be read, up to MaxAssets tables that can or cannot be read, and
\* plain text.
MaxAssets == 2

UnreadableTable == [TableOfShape(<<1>>) EXCEPT !.readOk = FALSE]

InitNumbering ==
    /\ Constructed
    /\ paragraphs \in BodyDocs({Plain})
    /\ images \in SeqsUpTo({Image(b, TRUE, TRUE) : b \in BOOLEAN}, MaxAssets)
    /\ docTables \in SeqsUpTo({TableOfShape(<<1>>), UnreadableTable}, MaxAssets)
    /\ figure_width = DefaultFigureWidth

SpecNumbering == InitNumbering /\ [][Next]_vars

\* Documents for the failures of the insertion of a table: mentions of table
\* 1 and plain text, and no table or one table with cells, for which
\* doc.add_table raises, the filling of a cell raises, or nothing does.
FailingTable(shape, step) == [TableOfShape(shape) EXCEPT !.fails = step]

InitInsert ==
    /\ Constructed
    /\ paragraphs \in BodyDocs(TableMentions)
    /\ images = <<>>
    /\ docTables \in {<<>>} \cup { <<FailingTable(shape, step)>> :
                                     shape \in {<<1>>, <<2, 1>>},
                                     step \in {"", "add_table", "cell"} }
    /\ figure_width = DefaultFigureWidth

SpecInsert == InitInsert /\ [][Next]_vars

\* Documents for the sections: up to MaxParas lines, each one of the lines
\* that open the authors, the abstract, the body or the references, an
\* e-mail address or plain text.
SectionLines ==
    { <<Word(<<"Author", "s">>)>>,
      <<Word(<<"x", "@", "y">>)>>,
      <<Word(<<"Abstract">>)>>,
      <<Word(<<"Introduction">>)>>,
      <<Word(<<"Reference", "s">>)>>,
      <<Plain>> }

InitSections ==
    /\ Constructed
    /\ paragraphs \in SeqsUpTo({ Para(raw, Normal, FALSE) : raw \in SectionLines },
                               MaxParas)
    /\ images = <<>>
    /\ docTables = <<>>
    /\ figure_width = DefaultFigureWidth

SpecSections == InitSections /\ [][Next]_vars

\* Documents for the title: no, TitleScanLimit - 1 or TitleScanLimit leading
\* paragraphs, all blank or all plain text, and then up to MaxTitleParas
\* paragraphs, each with or without the label "Title:" at its start or
\* further on, the style "Title" and a bold first run.
MaxTitleParas == 2

TitleTexts ==
    { <<Plain>>,
      <<Word(<<"Title", ":">>), Plain>>,
      <<Word(<<"TITLE", ":">>), Plain>>,
      <<Plain, Word(<<"Title", ":">>), Word(<<"beta">>)>>,
      <<Space>> }

TitleParas ==
    { Para(raw, style, bold) :
        raw \in TitleTexts, style \in {Normal, <<"Title">>}, bold \in BOOLEAN }

Leading(n, raw) == [k \in 1..n |-> Para(raw, Normal, FALSE)]

InitTitle ==
    /\ Constructed
    /\ \E n \in {0, TitleScanLimit - 1, TitleScanLimit} :
          \E raw \in {<<Space>>, <<Plain>>} :
              \E ps \in SeqsUpTo(TitleParas, MaxTitleParas) :
                  paragraphs = Leading(n, raw) \o ps
    /\ images = <<>>
    /\ docTables = <<>>
    /\ figure_width = DefaultFigureWidth

SpecTitle == InitTitle /\ [][Next]_vars

\* Documents for the body: up to MaxParas lines, each a line that opens the
\* body, a "References" line, a labelled line, a legend, text or whitespace.
BodyLines ==
    { <<Word(<<"Introduction">>)>>,
      <<Word(<<"Background">>), Plain>>,
      <<Word(<<"Reference", "s">>)>>,
      <<Word(<<"Keyword", "s", ":">>), Plain>>,
      <<Cite("figure", "bare", <<"1">>, "", ":"), Plain>>,
      <<Space, Plain, Space>>,
      <<Space>> }

InitBody ==
    /\ Constructed
    /\ paragraphs \in SeqsUpTo({ Para(raw, Normal, FALSE) : raw \in BodyLines },
                               MaxParas)
    /\ images = <<>>
    /\ docTables = <<>>
    /\ figure_width = DefaultFigureWidth

SpecBody == InitBody /\ [][Next]_vars

\* Documents with a structured abstract: up to MaxParas lines, each an
\* "Abstract" line, a line of the abstract that begins with "Background" or
\* "Methods", the heading "Introduction", a mention of figure 1 or text.
StructuredLines ==
    { <<Word(<<"Abstract">>)>>,
      <<Word(<<"Background", ":">>), Plain>>,
      <<Word(<<"Method", "s", ":">>), Cite("figure", "bare", <<"1">>, "", "")>>,
      <<Word(<<"Introduction">>)>>,
      <<Cite("figure", "bare", <<"1">>, "", "")>>,
      <<Plain>> }

InitStructured ==
    /\ Constructed
    /\ paragraphs \in SeqsUpTo({ Para(raw, Normal, FALSE) : raw \in StructuredLines },
                               MaxParas)
    /\ images = <<>>
    /\ docTables = <<>>
    /\ figure_width = DefaultFigureWidth

SpecStructured == InitStructured /\ [][Next]_vars

\* Documents with legends: after the heading "Introduction", up to MaxBody
\* paragraphs, each the legend line of figure 1 or table 1 with one of the
\* separators of the caption pattern, or plain text; no or one image, no or
\* one table.
LegendSeps == {"", ".", ":", ")"}

LegendLines ==
    { <<Cite(kind, "bare", <<"1">>, "", sep), Plain>> :
        kind \in {"figure", "table"}, sep \in LegendSeps }
    \cup { <<Plain>> }

InitLegend ==
    /\ Constructed
    /\ \E ps \in SeqsUpTo({ Para(raw, Normal, FALSE) : raw \in LegendLines },
                          MaxBody) :
          paragraphs = <<IntroPara>> \o ps
    /\ images \in SeqsUpTo({GoodImage}, MaxFigures)
    /\ docTables \in SeqsUpTo({TableOfShape(<<1>>)}, MaxTables)
    /\ figure_width = DefaultFigureWidth

SpecLegend == InitLegend /\ [][Next]_vars

----------------------------------------------------------------------------
(* The citation locator: claims *)

\* The matches of the six patterns in the body, in the order found.
Discovered == AllMatches(content.body)

\* The index in the list d of the first match of the key of c.
FirstDiscovered(d, c) ==
    CHOOSE i \in 1..Len(d) :
        /\ CitationKey(d[i]) = CitationKey(c)
        /\ \A k \in 1..(i - 1) : CitationKey(d[k]) # CitationKey(c)

\* C1: the list detect_citations returns holds no two citations of the same
\* (kind, number, position); every match of a pattern is represented in it by
\* exactly one citation, and that citation is the first match found of its
\* key.
C1_UniquePerKey ==
    detects > 0 =>
        LET d == Discovered IN
        /\ \A i, j \in 1..Len(citations) :
              CitationKey(citations[i]) = CitationKey(citations[j]) => i = j
        /\ \A m \in 1..Len(d) :
              \E i \in 1..Len(citations) :
                  CitationKey(citations[i]) = CitationKey(d[m])
        /\ \A i \in 1..Len(citations) :
              /\ \E m \in 1..Len(d) :
                    CitationKey(d[m]) = CitationKey(citations[i])
              /\ citations[i] = d[FirstDiscovered(d, citations[i])]

\* Two matches of one key with different matched texts were found, and the
\* list was returned.
C1_Witness ==
    /\ detects > 0
    /\ LET d == Discovered IN
       /\ \E m, n \in 1..Len(d) :
             /\ m < n
             /\ CitationKey(d[m]) = CitationKey(d[n])
             /\ d[m].match_text # d[n].match_text
       /\ \E m, n \in 1..Len(d) :
             /\ d[m].position # d[n].position
             /\ d[m].type = d[n].type
             /\ d[m].number = d[n].number

\* The place of a citation in the order of discovery within its paragraph:
\* figure before table, then the index of the pattern, then the offset of the
\* match in the text.
KindRank(c) == IF c.type = "figure" THEN 0 ELSE 1

PatternRank(c) ==
    CASE c.match_text.form = "abbr" -> 1
      [] c.match_text.form = "bare" -> 2
      [] OTHER -> 3

MatchOffset(c) ==
    LET pat == [form |-> c.match_text.form, letter |-> (c.type = "figure")]
        hits == {j \in 1..Len(c.context) :
                    /\ PatternMatches(c.type, pat, c.context[j])
                    /\ MatchGroup(pat, c.context[j]) = c.number}
    IN  CHOOSE j \in hits : \A k \in hits : j <= k

DiscoveredBefore(c, d) ==
    \/ KindRank(c) < KindRank(d)
    \/ KindRank(c) = KindRank(d) /\ PatternRank(c) < PatternRank(d)
    \/ /\ KindRank(c) = KindRank(d)
       /\ PatternRank(c) = PatternRank(d)
       /\ MatchOffset(c) < MatchOffset(d)

\* C2: the list detect_citations returns is sorted ascending by position, and
\* citations of one position are in the order of discovery: figure patterns
\* before table patterns, then pattern index, then offset in the text.
C2_SortedStable ==
    detects > 0 =>
        \A i, j \in 1..Len(citations) :
            i < j =>
                /\ citations[i].position <= citations[j].position
                /\ citations[i].position = citations[j].position
                      => DiscoveredBefore(citations[i], citations[j])

\* A figure citation precedes a table citation of the same paragraph that
\* comes first in the text, and a later pattern's match comes after an
\* earlier pattern's match that is later in the text.
C2_Witness ==
    /\ detects > 0
    /\ \E i, j \in 1..Len(citations) :
          /\ i < j
          /\ citations[i].position = citations[j].position
          /\ citations[i].type = "figure"
          /\ citations[j].type = "table"
          /\ MatchOffset(citations[i]) > MatchOffset(citations[j])
    /\ \E i, j \in 1..Len(citations) :
          /\ i < j
          /\ citations[i].position = citations[j].position
          /\ citations[i].type = citations[j].type
          /\ PatternRank(citations[i]) < PatternRank(citations[j])
          /\ MatchOffset(citations[i]) > MatchOffset(citations[j])

----------------------------------------------------------------------------
(* The placement: claims *)

IsTextBlock(b) == b.type \in {"heading", "paragraph"}

\* The indices in the output of the body paragraphs' blocks, ascending.
TextIndices(out) ==
    LET idx == {k \in 1..Len(out) : IsTextBlock(out[k])}
        nth(n) == CHOOSE k \in idx : Cardinality({m \in idx : m < k}) = n - 1
    IN  [n \in 1..Cardinality(idx) |-> nth(n)]

\* The blocks between the i-th body paragraph's block and the next one's.
Segment(out, ti, i) ==
    SubSeq(out, ti[i] + 1, IF i < Len(ti) THEN ti[i + 1] - 1 ELSE Len(out))

\* The number a mention or a citation cites: the value of its digits.
RECURSIVE LeadingDigits(_)
LeadingDigits(str) ==
    IF str # <<>> /\ IsDigit(Head(str))
    THEN <<Head(str)>> \o LeadingDigits(Tail(str)) ELSE <<>>

CitedNumber(c) == IntOf(LeadingDigits(c.number))

Assets(kind) == IF kind = "figure" THEN content.figures ELSE content.tables

Extracted(kind, n) ==
    \E k \in 1..Len(Assets(kind)) : Assets(kind)[k].number = n

\* The blocks the citation c accounts for.
AssetBlocks(c) ==
    IF c.type = "figure" THEN insert_figure(content, c, figure_width)
    ELSE insert_table(content, c)

\* Paragraph i of the body mentions the asset (kind, n).
Mentions(i, kind, n) ==
    \E j \in 1..Len(content.body[i].text) :
        LET tok == content.body[i].text[j] IN
        tok.t = "cite" /\ tok.kind = kind /\ IntOf(tok.digits) = n

\* C4: the body of the output is, for each body paragraph in order, one block
\* with its text (a heading block exactly when is_heading is set), followed
\* before the next paragraph's block by the blocks of the citations of that
\* position in list order; a block of a figure or table only follows a
\* paragraph that mentions that kind, and a caption one that mentions its
\* number.
C4_BodyStream ==
    formats > 0 =>
        LET ti == TextIndices(blocks) IN
        /\ Len(ti) = Len(content.body)
        /\ IF ti = <<>> THEN blocks = <<>> ELSE ti[1] = 1
        /\ \A i \in 1..Len(ti) :
              LET seg == Segment(blocks, ti, i)
                  here == SelectSeq(citations, LAMBDA c : c.position = i - 1)
              IN  /\ blocks[ti[i]].text = content.body[i].text
                  /\ (blocks[ti[i]].type = "heading") = content.body[i].is_heading
                  /\ seg = Flatten([k \in 1..Len(here) |-> AssetBlocks(here[k])])
                  /\ \A k \in 1..Len(seg) :
                        /\ seg[k].type \in {"image", "caption", "table", "placeholder"}
                              => \E n \in 1..(MaxFigures + MaxTables) :
                                    Mentions(i, seg[k].kind, n)
                        /\ seg[k].type = "caption"
                              => Mentions(i, seg[k].kind, seg[k].number)

\* A heading and a normal paragraph were emitted, a paragraph is followed by
\* a figure and then a table, and a later paragraph by nothing.
C4_Witness ==
    /\ formats > 0
    /\ LET ti == TextIndices(blocks) IN
       /\ \E i \in 1..Len(ti) : blocks[ti[i]].type = "heading"
       /\ \E i, j \in 1..Len(ti) :
             /\ i < j
             /\ blocks[ti[i]].type = "paragraph"
             /\ \E a, b \in 1..Len(Segment(blocks, ti, i)) :
                   /\ a < b
                   /\ Segment(blocks, ti, i)[a].type = "image"
                   /\ Segment(blocks, ti, i)[b].type = "table"
             /\ Segment(blocks, ti, j) = <<>>

\* C5: a citation whose number has no extracted figure (table) adds no block
\* to the output: no placeholder for it, and a paragraph all of whose
\* citations are of missing assets is followed by no block at all.
C5_MissingAssetSilent ==
    formats > 0 =>
        LET ti == TextIndices(blocks) IN
        \A i \in 1..Len(ti) :
            LET seg == Segment(blocks, ti, i)
                here == SelectSeq(citations, LAMBDA c : c.position = i - 1)
            IN  /\ \A k \in 1..Len(here) :
                      ~Extracted(here[k].type, CitedNumber(here[k]))
                          => \A b \in 1..Len(seg) :
                                ~(/\ seg[b].type = "placeholder"
                                  /\ seg[b].kind = here[k].type
                                  /\ seg[b].label = here[k].number)
                /\ (\A k \in 1..Len(here) :
                       ~Extracted(here[k].type, CitedNumber(here[k])))
                      => seg = <<>>

\* The number of caption blocks of the asset (kind, n) in a segment: one per
\* insertion of the asset.
Insertions(seg, kind, n) ==
    Cardinality({k \in 1..Len(seg) :
                    /\ seg[k].type = "caption"
                    /\ seg[k].kind = kind
                    /\ seg[k].number = n})

\* C9: an extracted asset is inserted once after every paragraph that
\* mentions it, however often and in whatever forms the paragraph does, and
\* after no other paragraph.
C9_OncePerParagraph ==
    formats > 0 =>
        LET ti == TextIndices(blocks) IN
        \A i \in 1..Len(ti) :
            \A kind \in {"figure", "table"} :
                \A n \in 1..(MaxFigures + MaxTables) :
                    Extracted(kind, n) =>
                        Insertions(Segment(blocks, ti, i), kind, n)
                            = (IF Mentions(i, kind, n) THEN 1 ELSE 0)

\* The extracted figure the citation c resolves to.
FigureOf(c) == Matching(content.figures, CitedNumber(c))[1]

\* The segment holds the placeholder of the citation c and neither a picture
\* of its figure's image nor a caption of its figure.
PlaceholderOnly(seg, c) ==
    /\ \E b \in 1..Len(seg) :
          seg[b] = PlaceholderBlock("figure", c.number)
    /\ \A b \in 1..Len(seg) :
          /\ ~(seg[b].type = "image"
               /\ seg[b].image = <<FigureOf(c).image_data>>)
          /\ ~(seg[b].type = "caption" /\ seg[b].kind = "figure"
               /\ seg[b].number = CitedNumber(c))

\* The citations of figures that exist, with the segment each belongs to,
\* satisfy P whenever their image satisfies Failing.
ForFailingFigures(Failing(_), P(_, _)) ==
    LET ti == TextIndices(blocks) IN
    \A i \in 1..Len(ti) :
        \A k \in 1..Len(citations) :
            (/\ citations[k].position = i - 1
             /\ citations[k].type = "figure"
             /\ Extracted("figure", CitedNumber(citations[k]))
             /\ Failing(FigureOf(citations[k]).image_data))
                => P(Segment(blocks, ti, i), citations[k])

SizingFails(img) == ~img.pilOk

InsertionFails(img) == ~img.docxOk

\* C6 as claimed: whenever Image.open or the sizing of a cited, extracted
\* figure fails, the output holds the placeholder of the citation and no
\* picture and no caption of the figure, and format_document does not raise.
C6_DecodeFailurePlaceholder ==
    formats > 0 =>
        /\ ~raised
        /\ ForFailingFigures(SizingFails, PlaceholderOnly)

\* C6 amended: whenever the picture of a cited, extracted figure cannot be
\* added, neither at the computed width nor at the fallback width, the output
\* holds the placeholder of the citation and no picture and no caption of the
\* figure, and format_document does not raise.
C6_InsertionFailurePlaceholder ==
    formats > 0 =>
        /\ ~raised
        /\ ForFailingFigures(InsertionFails, PlaceholderOnly)

\* A figure whose image neither Image.open nor add_picture can read was
\* cited and the document was formatted.
C6_Witness ==
    /\ formats > 0
    /\ \E k \in 1..Len(citations) :
          /\ citations[k].type = "figure"
          /\ Extracted("figure", CitedNumber(citations[k]))
          /\ ~FigureOf(citations[k]).image_data.pilOk
          /\ ~FigureOf(citations[k]).image_data.docxOk
    /\ \E b \in 1..Len(blocks) : blocks[b].type = "placeholder"

----------------------------------------------------------------------------
(* Tables, abstract and headings: claims *)

\* The grid block shows the table of the source whose number is n: as many
\* rows, as many columns as the longest row has cells, every cell of the
\* source in its place with its text stripped and in bold in the first row,
\* every other cell empty.
ShowsTable(b, n) ==
    LET src == docTables[n].grid
        C == Max({Len(src[i]) : i \in 1..Len(src)})
    IN  /\ b.type = "table"
        /\ Len(b.grid) = Len(src)
        /\ \A i \in 1..Len(src) :
              /\ Len(b.grid[i]) = C
              /\ \A j \in 1..C :
                    IF j <= Len(src[i])
                    THEN /\ b.grid[i][j].text = Strip(src[i][j])
                         /\ b.grid[i][j].bold = (i = 1)
                    ELSE b.grid[i][j].text = <<>>

\* C7: for every cited table whose extracted grid has rows, the output holds
\* the caption "Table {number}: {caption}" and right after it the grid block
\* of that table; a caption of a table is always followed by a grid block.
C7_TableRoundTrip ==
    formats > 0 =>
        LET ti == TextIndices(blocks) IN
        /\ \A i \in 1..Len(ti) :
              \A n \in 1..Len(docTables) :
                  (/\ Mentions(i, "table", n)
                   /\ Extracted("table", n)
                   /\ docTables[n].grid # <<>>)
                      => LET seg == Segment(blocks, ti, i) IN
                         \E b \in 1..(Len(seg) - 1) :
                            /\ seg[b] = CaptionBlock("table", n,
                                            Matching(content.tables, n)[1].caption)
                            /\ ShowsTable(seg[b + 1], n)
        /\ \A b \in 1..Len(blocks) :
              (blocks[b].type = "caption" /\ blocks[b].kind = "table")
                  => b < Len(blocks) /\ blocks[b + 1].type = "table"

\* The index of the first line at or after index i that satisfies P, or 0.
FirstLine(P(_), from) ==
    LET hits == {k \in from..Len(paragraphs) : P(Strip(paragraphs[k].raw))}
    IN  IF hits = {} THEN 0 ELSE CHOOSE k \in hits : \A m \in hits : k <= m

\* The stripped lines strictly between lines a and e that satisfy Keep,
\* joined by single spaces.
JoinedBetween(a, e, Keep(_)) ==
    LET idx == {k \in (a + 1)..(e - 1) : Keep(Strip(paragraphs[k].raw))}
        nth(n) == CHOOSE k \in idx : Cardinality({m \in idx : m < k}) = n - 1
        line(n) == Strip(paragraphs[nth(n)].raw)
        upTo[n \in 0..Cardinality(idx)] ==
            IF n = 0 THEN <<>>
            ELSE IF n = 1 THEN line(1)
            ELSE upTo[n - 1] \o <<Space>> \o line(n)
    IN  upTo[Cardinality(idx)]

NonEmptyLine(text) == text # <<>>

CollectedLine(text) == text # <<>> /\ ~AbstractStartRe(text)

\* The abstract is extracted and the document holds an "Abstract" line with
\* an end line after it: the abstract is the lines that satisfy Keep between
\* the first "Abstract" line and the first end line after it.
AbstractIsBetween(Keep(_)) ==
    LET a == FirstLine(AbstractStartRe, 1)
        e == IF a = 0 THEN 0 ELSE FirstLine(AbstractEndRe, a + 1)
    IN  (pc \notin {"title", "authors", "abstract"} /\ a # 0 /\ e # 0)
            => content.abstract = JoinedBetween(a, e, Keep)

\* C8 as claimed: the abstract is the stripped non-empty lines strictly
\* between the first "Abstract" line and the first end line after it, in
\* order, joined by single spaces.
C8_AbstractAllLines == AbstractIsBetween(NonEmptyLine)

\* C8 amended: the abstract is the stripped non-empty lines, other than
\* further "Abstract" lines, strictly between the first "Abstract" line and
\* the first end line after it, in order, joined by single spaces.
C8_AbstractBetween == AbstractIsBetween(CollectedLine)

\* An abstract of two lines, the first of them with surrounding whitespace,
\* was extracted from between an "Abstract" line and an end line.
C8_Witness ==
    LET a == FirstLine(AbstractStartRe, 1)
        e == IF a = 0 THEN 0 ELSE FirstLine(AbstractEndRe, a + 1)
    IN  /\ pc = "ready"
        /\ a # 0
        /\ e = a + 3
        /\ paragraphs[a + 1].raw # Strip(paragraphs[a + 1].raw)
        /\ CollectedLine(Strip(paragraphs[a + 1].raw))
        /\ CollectedLine(Strip(paragraphs[a + 2].raw))
        /\ content.abstract =
              Strip(paragraphs[a + 1].raw) \o <<Space>> \o paragraphs[a + 2].raw

\* C10: a body paragraph is a heading if its style's name contains
\* "Heading"; one whose style's name does not (or that has no style) is a
\* heading exactly when its first run is bold and its text has fewer than
\* 100 characters.
C10_HeadingRule ==
    (/\ pc \notin {"title", "authors", "abstract", "body"}
     /\ Len(content.body) = Len(paragraphs)) =>
        \A i \in 1..Len(paragraphs) :
            content.body[i].is_heading =
                IF ContainsChunk(paragraphs[i].style, "Heading") THEN TRUE
                ELSE /\ paragraphs[i].bold
                     /\ TextLen(content.body[i].text) < HeadingMaxLen

----------------------------------------------------------------------------
(* Widths and numbering: claims *)

\* C11: every image block of the output has the width min(configured figure
\* width, 6.5 inches), for every width of the slider and on every path that
\* emits an image.
C11_WidthCapped ==
    formats > 0 =>
        \A b \in 1..Len(blocks) :
            blocks[b].type = "image"
                => blocks[b].width = Min2(figure_width, MaxFigureWidth)

\* The assets are numbered 1, 2, ... in the order of the list.
GapFree(assets) == \A i \in 1..Len(assets) : assets[i].number = i

\* C12: after extraction the numbers of the extracted figures are 1..k and
\* those of the extracted tables 1..m, whichever images or tables were
\* skipped.
C12_GapFreeNumbers ==
    pc = "ready" => GapFree(content.figures) /\ GapFree(content.tables)

\* The blocks of the sequence other than the empty paragraphs.
Visible(seg) == SelectSeq(seg, LAMBDA b : b.type # "empty")

\* C13: for every table citation whose table exists, the blocks emitted for
\* it are the caption block followed by the grid block, or the placeholder
\* alone.
C13_TableOrPlaceholder ==
    formats > 0 =>
        LET ti == TextIndices(blocks) IN
        \A i \in 1..Len(ti) :
            \A n \in 1..Len(docTables) :
                (Mentions(i, "table", n) /\ Extracted("table", n))
                    => LET seg == Visible(Segment(blocks, ti, i)) IN
                       \/ /\ Len(seg) = 2
                          /\ seg[1].type = "caption" /\ seg[1].number = n
                          /\ seg[2].type = "table"
                       \/ /\ Len(seg) = 1
                          /\ seg[1].type = "placeholder"

\* The indices of the blocks of the document that satisfy P.
BlocksWhere(P(_)) == {k \in 1..Len(document) : P(document[k])}

IsAbstractBlock(b) == b.type = "abstract"

IsPageBreak(b) == b.type = "page_break"

IsReferencesHeading(b) ==
    b.type = "section_heading" /\ b.text = <<Word(<<"Reference", "s">>)>>

\* C14: in the document format_document builds, a page break lies between
\* the abstract and the first block of the body, and a page break lies
\* immediately before the heading of the references when there is one.
C14_PageBreaks ==
    formats > 0 =>
        /\ \A a \in BlocksWhere(IsAbstractBlock) :
              \A b \in BlocksWhere(IsTextBlock) :
                  (\A m \in BlocksWhere(IsTextBlock) : b <= m)
                      => \E k \in BlocksWhere(IsPageBreak) : a < k /\ k < b
        /\ \A r \in BlocksWhere(IsReferencesHeading) :
              r > 1 /\ IsPageBreak(document[r - 1])

\* The string is decimal digits, optionally followed by one upper-case
\* letter.
DigitsOptUpper(str) ==
    \/ IntParses(str)
    \/ /\ Len(str) >= 2
       /\ IntParses(SubSeq(str, 1, Len(str) - 1))
       /\ str[Len(str)] \in UpperLetters

\* C15: the number of every figure citation of the locator is decimal digits
\* optionally followed by one upper-case letter, and the placement of figures
\* that can all be inserted never emits a placeholder for a figure citation:
\* every one is resolved to its base number.
C15_FigureNumbersParse ==
    /\ \A k \in 1..Len(citations) :
          citations[k].type = "figure" => DigitsOptUpper(citations[k].number)
    /\ (formats > 0 /\ \A i \in 1..Len(images) : images[i] = GoodImage)
          => \A b \in 1..Len(blocks) :
                ~(blocks[b].type = "placeholder" /\ blocks[b].kind = "figure")

----------------------------------------------------------------------------
(* Title and body: claims *)

\* The text without the label "Title:" at its start, if it has one.
LeadingLabelRemoved(text) ==
    IF /\ text # <<>> /\ text[1].t = "word" /\ Len(text[1].w) >= 2
       /\ text[1].w[1] = "Title" /\ text[1].w[2] = ":"
    THEN IF Len(text[1].w) > 2
         THEN <<Word(SubSeq(text[1].w, 3, Len(text[1].w)))>> \o Tail(text)
         ELSE Tail(text)
    ELSE text

\* C16: the title is the stripped text, without a leading label "Title:",
\* of the first non-empty paragraph among the first 10 that has a bold first
\* run, contains "title:" in any case or has a style whose name contains
\* "Title"; without such a paragraph it is the stripped text of the first
\* non-empty paragraph, and empty when there is none.
C16_TitleRule ==
    pc # "title" =>
        LET first(hi, P(_)) ==
                LET hits == {k \in 1..Min2(hi, Len(paragraphs)) : P(paragraphs[k])}
                IN  IF hits = {} THEN 0
                    ELSE CHOOSE k \in hits : \A m \in hits : k <= m
            nonEmpty(para) == Strip(para.raw) # <<>>
            heuristic(para) ==
                /\ nonEmpty(para)
                /\ \/ para.bold
                   \/ HasTitleLabel(para.raw)
                   \/ ContainsChunk(para.style, "Title")
            t == first(10, heuristic)
            f == first(Len(paragraphs), nonEmpty)
        IN  content.title =
                IF t # 0 THEN LeadingLabelRemoved(Strip(paragraphs[t].raw))
                ELSE IF f # 0 THEN Strip(paragraphs[f].raw)
                ELSE <<>>

\* The first line that opens the body (0 when none does) and the first
\* "References" line after it (one past the last line when none follows).
BodyStart == FirstLine(BodyStartRe, 1)

BodyEnd ==
    LET e == FirstLine(ReferencesRe, BodyStart) IN
    IF e = 0 THEN Len(paragraphs) + 1 ELSE e

\* The lines the body keeps: from the opening line to the line before the
\* "References" line, non-empty and matching no skip pattern.
BodyKept ==
    IF BodyStart = 0 THEN {}
    ELSE {k \in BodyStart..(BodyEnd - 1) :
             /\ Strip(paragraphs[k].raw) # <<>>
             /\ ~SkipRe(Strip(paragraphs[k].raw))}

\* C17: the body paragraphs are, in document order, the stripped texts of
\* the non-empty raw paragraphs from the first line that begins with
\* "Introduction", "Background" or "Methods" to the first "References" line
\* after it that match no skip pattern; without paragraphs the body is
\* empty.
C17_BodyWindow ==
    pc \notin {"title", "authors", "abstract", "body"} =>
        LET kept == BodyKept
            nth(n) == CHOOSE k \in kept : Cardinality({m \in kept : m < k}) = n - 1
        IN  /\ Len(content.body) = Cardinality(kept)
            /\ \A n \in 1..Cardinality(kept) :
                  content.body[n].text = Strip(paragraphs[nth(n)].raw)
            /\ paragraphs = <<>> => content.body = <<>>

\* A body of two paragraphs, one of them with surrounding whitespace, was
\* extracted from a document with a skipped line after the opening line and
\* a "References" line at the end of the body.
C17_Witness ==
    /\ pc = "ready"
    /\ BodyStart # 0
    /\ BodyEnd <= Len(paragraphs)
    /\ \E k \in (BodyStart + 1)..(BodyEnd - 1) :
          SkipRe(Strip(paragraphs[k].raw))
    /\ \E k \in BodyKept :
          k > BodyStart /\ paragraphs[k].raw # Strip(paragraphs[k].raw)
    /\ Len(content.body) = 2

\* The first "Abstract" line (0 when there is none) and the first end line
\* after it (one past the last line when none follows).
AbstractStart == FirstLine(AbstractStartRe, 1)

AbstractEnd ==
    LET e == IF AbstractStart = 0 THEN 0
             ELSE FirstLine(AbstractEndRe, AbstractStart + 1)
    IN  IF e = 0 THEN Len(paragraphs) + 1 ELSE e

\* The lines whose text the abstract collects.
AbstractKept ==
    IF AbstractStart = 0 THEN {}
    ELSE {k \in (AbstractStart + 1)..(AbstractEnd - 1) :
             CollectedLine(Strip(paragraphs[k].raw))}

\* The n-th line of the set of lines.
NthLine(lines, n) ==
    CHOOSE k \in lines : Cardinality({m \in lines : m < k}) = n - 1

\* The abstract is the text of the lines AbstractKept and the body that of
\* the lines BodyKept.
ContentFromKept ==
    /\ content.abstract =
          IF AbstractStart = 0 THEN <<>>
          ELSE JoinedBetween(AbstractStart, AbstractEnd, CollectedLine)
    /\ Len(content.body) = Cardinality(BodyKept)
    /\ \A n \in 1..Len(content.body) :
          content.body[n].text = Strip(paragraphs[NthLine(BodyKept, n)].raw)

\* C18: no raw paragraph gives its text both to the abstract and to a body
\* paragraph, and no citation is located in a paragraph that gave its text
\* to the abstract.
C18_AbstractBodyDisjoint ==
    pc \notin {"title", "authors", "abstract", "body"} =>
        /\ ContentFromKept
        /\ AbstractKept \cap BodyKept = {}
        /\ \A k \in 1..Len(citations) :
              NthLine(BodyKept, citations[k].position + 1) \notin AbstractKept

\* Line k is the line whose text the extractor takes as the caption of the
\* extracted asset (kind, n): the first line that matches its pattern.
IsCaptionLine(k, kind, n) ==
    /\ Extracted(kind, n)
    /\ CaptionRe(Strip(paragraphs[k].raw), kind, n)
    /\ \A m \in 1..(k - 1) : ~CaptionRe(Strip(paragraphs[m].raw), kind, n)

\* C19: a raw paragraph that the extractor takes as the caption line of
\* figure or table N is not a paragraph of the body, and no citation of N is
\* located in it.
C19_LegendNotBody ==
    pc = "ready" =>
        /\ ContentFromKept
        /\ \A k \in 1..Len(paragraphs) :
              \A kind \in {"figure", "table"} :
                  \A n \in 1..Len(Assets(kind)) :
                      IsCaptionLine(k, kind, n)
                          => /\ k \notin BodyKept
                             /\ \A c \in 1..Len(citations) :
                                   ~(/\ citations[c].type = kind
                                     /\ CitedNumber(citations[c]) = n
                                     /\ NthLine(BodyKept,
                                                citations[c].position + 1) = k)

====
